---------------------------- MODULE Spec2Model ----------------------------
(***************************************************************************)
(* Model of the VectorVisualization component (projection of a batch of    *)
(* vectors to 2D, view transform, pointer interaction, draw pass).         *)
(*                                                                         *)
(* JavaScript numbers are modelled as exact rationals [n, d] in lowest     *)
(* terms, extended with NaN ([0,0]) and the two infinities ([1,0],         *)
(* [-1,0]); rounding of doubles is not modelled.                           *)
(***************************************************************************)
EXTENDS Integers, Sequences, FiniteSets, TLC

(***************************************************************************)
(* Numbers                                                                 *)
(***************************************************************************)
Abs(n) == IF n < 0 THEN -n ELSE n

RECURSIVE GCD(_, _)
GCD(a, b) == IF b = 0 THEN a ELSE GCD(b, a % b)

NaN == [n |-> 0, d |-> 0]
PosInf == [n |-> 1, d |-> 0]
NegInf == [n |-> -1, d |-> 0]

Num(n, d) ==
  IF d = 0 THEN (IF n = 0 THEN NaN ELSE IF n > 0 THEN PosInf ELSE NegInf)
  ELSE LET g == GCD(Abs(n), Abs(d))
           s == IF d < 0 THEN -1 ELSE 1
       IN  [n |-> s * (n \div g), d |-> s * (d \div g)]

I(k) == [n |-> k, d |-> 1]
Zero == I(0)
One == I(1)

IsNaN(a) == a.n = 0 /\ a.d = 0
IsFinite(a) == a.d # 0

Neg(a) == [n |-> -a.n, d |-> a.d]

Add(a, b) ==
  IF IsNaN(a) \/ IsNaN(b) THEN NaN
  ELSE IF a.d = 0 /\ b.d = 0 THEN (IF a.n = b.n THEN a ELSE NaN)
  ELSE IF a.d = 0 THEN a
  ELSE IF b.d = 0 THEN b
  ELSE LET g == GCD(a.d, b.d)
       IN  Num(a.n * (b.d \div g) + b.n * (a.d \div g), (a.d \div g) * b.d)

Sub(a, b) == Add(a, Neg(b))

Mul(a, b) ==
  IF IsNaN(a) \/ IsNaN(b) THEN NaN
  ELSE IF a.d = 0 \/ b.d = 0
       THEN (IF a.n = 0 \/ b.n = 0 THEN NaN
             ELSE IF (a.n > 0) = (b.n > 0) THEN PosInf ELSE NegInf)
  ELSE IF a.n = 0 \/ b.n = 0 THEN Zero
  ELSE LET g1 == GCD(Abs(a.n), b.d)
           g2 == GCD(Abs(b.n), a.d)
       IN  [n |-> (a.n \div g1) * (b.n \div g2),
            d |-> (a.d \div g2) * (b.d \div g1)]

Inv(a) ==
  IF IsNaN(a) THEN NaN
  ELSE IF a.d = 0 THEN Zero
  ELSE IF a.n = 0 THEN PosInf
  ELSE IF a.n < 0 THEN [n |-> -a.d, d |-> -a.n]
  ELSE [n |-> a.d, d |-> a.n]

Div(a, b) == Mul(a, Inv(b))

\* an/ad < bn/bd for ad, bd > 0, decided on the integer parts and then on
\* the inverted fractional parts, so that no cross product is formed
RECURSIVE FracLt(_, _, _, _)
FracLt(an, ad, bn, bd) ==
  IF an \div ad # bn \div bd THEN an \div ad < bn \div bd
  ELSE IF bn % bd = 0 THEN FALSE
  ELSE IF an % ad = 0 THEN TRUE
  ELSE FracLt(bd, bn % bd, ad, an % ad)

\* a < b as JavaScript decides it: false whenever an operand is NaN.
Lt(a, b) ==
  IF IsFinite(a) /\ IsFinite(b) THEN FracLt(a.n, a.d, b.n, b.d) ELSE Sub(a, b).n < 0
Le(a, b) == ~IsNaN(a) /\ ~IsNaN(b) /\ ~Lt(b, a)

MathMin(a, b) == IF IsNaN(a) \/ IsNaN(b) THEN NaN ELSE IF Lt(b, a) THEN b ELSE a
MathMax(a, b) == IF IsNaN(a) \/ IsNaN(b) THEN NaN ELSE IF Lt(a, b) THEN b ELSE a

\* x || 1 : 0 and NaN are falsy.
OrOne(a) == IF a.n = 0 THEN One ELSE a

RECURSIVE ISqrtB(_, _, _)
ISqrtB(n, lo, hi) ==
  IF lo >= hi THEN lo
  ELSE LET mid == (lo + hi + 1) \div 2
       IN  IF mid * mid <= n THEN ISqrtB(n, mid, hi) ELSE ISqrtB(n, lo, mid - 1)

\* floor of the square root of a natural number below 2^31
ISqrt(n) == ISqrtB(n, 0, IF n < 46340 THEN n ELSE 46340)

SqrtScale == 1000

\* Math.sqrt: exact on squares of rationals, rounded down to 1/SqrtScale
\* elsewhere.
MathSqrt(a) ==
  IF IsNaN(a) THEN NaN
  ELSE IF a.d = 0 THEN (IF a.n > 0 THEN PosInf ELSE NaN)
  ELSE IF a.n < 0 THEN NaN
  ELSE LET rn == ISqrt(a.n)
           rd == ISqrt(a.d)
       IN  IF rn * rn = a.n /\ rd * rd = a.d THEN [n |-> rn, d |-> rd]
           ELSE Num(ISqrt((a.n * SqrtScale * SqrtScale) \div a.d), SqrtScale)

\* norm > 1e-10 : every positive rational whose denominator fits 31 bits
\* is above 1e-10, so the guard is decided by the sign.
AboveEps(a) == a.n > 0

(***************************************************************************)
(* Squares of device distances do not fit 31 bits; they are kept as        *)
(* fractions of naturals written in base WBase, least significant limb     *)
(* first.                                                                  *)
(***************************************************************************)
WBase == 10000

RECURSIVE WOfNat(_)
WOfNat(n) == IF n = 0 THEN <<>> ELSE <<n % WBase>> \o WOfNat(n \div WBase)

WLimb(a, i) == IF i <= Len(a) THEN a[i] ELSE 0

RECURSIVE WAddFrom(_, _, _, _)
WAddFrom(a, b, i, carry) ==
  IF i > Len(a) /\ i > Len(b) THEN (IF carry = 0 THEN <<>> ELSE <<carry>>)
  ELSE LET t == WLimb(a, i) + WLimb(b, i) + carry
       IN  <<t % WBase>> \o WAddFrom(a, b, i + 1, t \div WBase)

WAdd(a, b) == WAddFrom(a, b, 1, 0)

RECURSIVE WTimesLimb(_, _, _, _)
WTimesLimb(a, m, i, carry) ==
  IF i > Len(a) THEN (IF carry = 0 THEN <<>> ELSE <<carry>>)
  ELSE LET t == a[i] * m + carry
       IN  <<t % WBase>> \o WTimesLimb(a, m, i + 1, t \div WBase)

RECURSIVE WMulFrom(_, _, _)
WMulFrom(a, b, j) ==
  IF j > Len(b) THEN <<>>
  ELSE WAdd(WTimesLimb(a, b[j], 1, 0), <<0>> \o WMulFrom(a, b, j + 1))

RECURSIVE WTrim(_)
WTrim(a) == IF Len(a) > 0 /\ a[Len(a)] = 0 THEN WTrim(SubSeq(a, 1, Len(a) - 1)) ELSE a

WMul(a, b) == WTrim(WMulFrom(a, b, 1))

RECURSIVE WLtFrom(_, _, _)
WLtFrom(a, b, i) ==
  IF i = 0 THEN FALSE
  ELSE IF a[i] # b[i] THEN a[i] < b[i]
  ELSE WLtFrom(a, b, i - 1)

\* a < b for trimmed a, b
WLt(a, b) ==
  IF Len(a) # Len(b) THEN Len(a) < Len(b) ELSE WLtFrom(a, b, Len(a))

\* a non-negative number n/d in wide form; nan marks NaN
WNaN == [nan |-> TRUE, n |-> <<>>, d |-> <<>>]

\* a * a
WSq(a) ==
  IF ~IsFinite(a) THEN WNaN
  ELSE LET n == WOfNat(Abs(a.n))
           d == WOfNat(a.d)
       IN  [nan |-> FALSE, n |-> WMul(n, n), d |-> WMul(d, d)]

WSum(a, b) ==
  IF a.nan \/ b.nan THEN WNaN
  ELSE [nan |-> FALSE, n |-> WTrim(WAdd(WMul(a.n, b.d), WMul(b.n, a.d))),
        d |-> WMul(a.d, b.d)]

WLess(a, b) == ~a.nan /\ ~b.nan /\ WLt(WMul(a.n, b.d), WMul(b.n, a.d))


Some(x) == <<x>>
None == <<>>

\* the array with elements f[1], ..., f[n], for a function f on 1..n
Array(f) == <<>> \o f

(***************************************************************************)
(* Projection engine: projectTo2D, dotProduct, powerIteration,             *)
(* powerIterationOrthogonal                                                *)
(***************************************************************************)
\* v[i] of a JavaScript array: undefined (NaN in arithmetic) past the end
At(v, i) == IF i <= Len(v) THEN v[i] ELSE NaN

RECURSIVE dotFrom(_, _, _, _)
dotFrom(a, b, i, sum) ==
  IF i > Len(a) THEN sum
  ELSE dotFrom(a, b, i + 1, Add(sum, Mul(a[i], At(b, i))))

dotProduct(a, b) == dotFrom(a, b, 1, Zero)

\* v.map(x => x / norm)
Scaled(v, norm) == Array([i \in 1..Len(v) |-> Div(v[i], norm)])

\* result[i] += row[i] * proj, over the rows from k on
RECURSIVE covFrom(_, _, _, _, _)
covFrom(data, dim, v, k, result) ==
  IF k > Len(data) THEN result
  ELSE LET row == data[k]
           proj == dotProduct(row, v)
       IN  covFrom(data, dim, v, k + 1,
                   Array([i \in 1..dim |-> Add(result[i], Mul(At(row, i), proj))]))

covApply(data, dim, v) == covFrom(data, dim, v, 1, Array([i \in 1..dim |-> Zero]))

Iterations == 50

\* if (norm > 1e-10) { v = result.map(x => x / norm) }
rescale(result, norm, v) == IF AboveEps(norm) THEN Scaled(result, norm) ELSE v

\* norm = Math.sqrt(dotProduct(result, result)), then the guarded rescaling
renormalise(result, v) == rescale(result, MathSqrt(dotProduct(result, result)), v)

\* one pass of the loop body of powerIteration
powerStep(data, dim, v) == renormalise(covApply(data, dim, v), v)

\* The loop body is a function of v alone, so once a pass returns its
\* argument w = v every later pass does too and the remaining passes are
\* skipped.
RECURSIVE powerLoop(_, _, _, _)
powerNext(data, dim, v, w, iter) ==
  IF w = v THEN v ELSE powerLoop(data, dim, w, iter + 1)

powerLoop(data, dim, v, iter) ==
  IF iter >= Iterations THEN v
  ELSE powerNext(data, dim, v, powerStep(data, dim, v), iter)

\* v = v.map(x => x / norm) with norm = Math.sqrt(dotProduct(v, v)), unguarded
normalise(v) == Scaled(v, MathSqrt(dotProduct(v, v)))

\* rnd is the vector of dim values Math.random() - 0.5
powerIteration(data, dim, rnd) == powerLoop(data, dim, normalise(rnd), 0)

\* result[i] -= proj1 * pc1[i]
removeComponent(result, pc1) ==
  LET proj1 == dotProduct(result, pc1)
  IN  Array([i \in 1..Len(result) |-> Sub(result[i], Mul(proj1, At(pc1, i)))])

orthoStep(data, dim, pc1, v) ==
  renormalise(removeComponent(covApply(data, dim, v), pc1), v)

RECURSIVE orthoLoop(_, _, _, _, _)
orthoNext(data, dim, pc1, v, w, iter) ==
  IF w = v THEN v ELSE orthoLoop(data, dim, pc1, w, iter + 1)

orthoLoop(data, dim, pc1, v, iter) ==
  IF iter >= Iterations THEN v
  ELSE orthoNext(data, dim, pc1, v, orthoStep(data, dim, pc1, v), iter)

powerIterationOrthogonal(data, dim, pc1, rnd) ==
  orthoLoop(data, dim, pc1, normalise(removeComponent(rnd, pc1)), 0)

\* mean[i] += v[i] / n over all vectors
RECURSIVE meanFrom(_, _, _, _, _)
meanFrom(allVectors, dim, n, k, mean) ==
  IF k > Len(allVectors) THEN mean
  ELSE meanFrom(allVectors, dim, n, k + 1,
                Array([i \in 1..dim |-> Add(mean[i], Div(At(allVectors[k], i), I(n)))]))

centerAll(allVectors, mean) ==
  Array([k \in 1..Len(allVectors) |->
     Array([i \in 1..Len(allVectors[k]) |-> Sub(allVectors[k][i], At(mean, i))])])

\* the last pair is popped off whether or not a query vector was appended
popAlways(projected, queryVec) ==
  [projected |-> SubSeq(projected, 1, Len(projected) - 1),
   queryProjected |-> IF queryVec # None THEN Some(projected[Len(projected)]) ELSE None]

\* the first pair, not the last, is taken off as the query point
popQueryFirst(projected, queryVec) ==
  IF queryVec # None
  THEN [projected |-> Tail(projected), queryProjected |-> Some(Head(projected))]
  ELSE [projected |-> projected, queryProjected |-> None]

\* if (queryVector) { queryProjected = projected.pop() }; return {...}
popQuery(projected, queryVec) ==
  IF queryVec # None
  THEN [projected |-> SubSeq(projected, 1, Len(projected) - 1),
        queryProjected |-> Some(projected[Len(projected)])]
  ELSE [projected |-> projected, queryProjected |-> None]

\* projected = centered.map(v => [dotProduct(v, pc1), dotProduct(v, pc2)])
projectOnto(centered, pc1, pc2) ==
  Array([k \in 1..Len(centered) |-> <<dotProduct(centered[k], pc1),
                                      dotProduct(centered[k], pc2)>>])

\* pc2 from the centred data and pc1, then the projection
projectWith(centered, dim, pc1, rnd2) ==
  projectOnto(centered, pc1, powerIterationOrthogonal(centered, dim, pc1, rnd2))

\* pc1 from the centred data, then the rest
projectCentered(centered, dim, rnd1, rnd2) ==
  projectWith(centered, dim, powerIteration(centered, dim, rnd1), rnd2)

\* dim = allVectors[0].length, n = allVectors.length, mean, centered
projectAll(allVectors, rnd1, rnd2) ==
  projectCentered(
    centerAll(allVectors,
              meanFrom(allVectors, Len(allVectors[1]), Len(allVectors), 1,
                       Array([i \in 1..Len(allVectors[1]) |-> Zero]))),
    Len(allVectors[1]), rnd1, rnd2)

\* vecs and queryVec are the parameters vectors and queryVector;
\* queryVec is None (undefined) or Some(vector); rnd1, rnd2 are the
\* random vectors drawn by the two power iterations.
projectTo2D(vecs, queryVec, rnd1, rnd2) ==
  IF Len(vecs) = 0 THEN [projected |-> <<>>, queryProjected |-> None]
  ELSE popQuery(projectAll(IF queryVec # None THEN Append(vecs, queryVec[1])
                           ELSE vecs, rnd1, rnd2),
                queryVec)


(***************************************************************************)
(* Inputs of the model                                                     *)
(***************************************************************************)
Vec(a, b) == <<I(a), I(b)>>

Doc(id, v) == [id |-> id, vector |-> v, metadata |-> "m"]

\* four documents spread along both coordinate axes
BatchA == <<Doc(1, Vec(2, 0)), Doc(2, Vec(-2, 0)), Doc(3, Vec(0, 1)), Doc(4, Vec(0, -1))>>

\* four documents on one line, the middle two close together
BatchB == <<Doc(1, Vec(0, 0)), Doc(2, Vec(25, 0)), Doc(3, Vec(27, 0)), Doc(4, Vec(52, 0))>>

\* two documents of dimension 1
BatchC == <<Doc(5, <<I(1)>>), Doc(6, <<I(4)>>)>>

Result(id, score) == [id |-> id, score |-> score]

\* results for ids 2 and 4 and for an id no document carries
Results == <<Result(2, Num(9, 10)), Result(9, Num(1, 2)), Result(4, Num(3, 4))>>

\* The props <<vectors, searchResults, queryVector>> the component is rendered
\* with.  searchResults is None when the caller omits it and queryVector is
\* None when it is undefined.
PropSets ==
  {<<<<>>, None, None>>,
   <<BatchA, Some(<<>>), None>>,
   <<BatchB, Some(Results), Some(Vec(104, 0))>>,
   <<BatchC, None, None>>}

\* one document, and three documents with the same vector, of dimension 2
Single2 == <<Doc(1, Vec(3, 4))>>
Same2 == <<Doc(1, Vec(1, 2)), Doc(2, Vec(1, 2)), Doc(3, Vec(1, 2))>>

\* one document, and two documents with the same vector, of dimension 1
Single1 == <<Doc(1, <<I(7)>>)>>
Same1 == <<Doc(1, <<I(7)>>), Doc(2, <<I(7)>>)>>

\* one document of dimension 3
Single3 == <<Doc(1, <<I(1), I(2), I(3)>>)>>

\* three documents of dimension 2 that, with the query vector (0, -1),
\* spread along both coordinate axes
Spread2 == <<Doc(1, Vec(3, 0)), Doc(2, Vec(-3, 0)), Doc(3, Vec(0, 1))>>

\* four documents of dimension 3 in the plane of the first two coordinates
Flat3 == <<Doc(1, <<I(2), I(0), I(0)>>), Doc(2, <<I(-2), I(0), I(0)>>),
           Doc(3, <<I(0), I(1), I(0)>>), Doc(4, <<I(0), I(-1), I(0)>>)>>

\* the props that the projection engine is followed on
EngineSets ==
  {<<Single2, Some(<<>>), None>>,
   <<Same2, Some(<<>>), None>>,
   <<Single1, Some(<<>>), None>>,
   <<Same1, Some(<<>>), None>>,
   <<Single3, Some(<<>>), None>>,
   <<Spread2, Some(<<>>), Some(Vec(0, -1))>>,
   <<Flat3, Some(<<>>), None>>}

\* a value Math.random() - 0.5 takes
RandomValue == Num(3, 10)

\* The vectors drawn by new Array(dim).fill(0).map(() => Math.random() - 0.5)
\* that the model follows: one component is RandomValue and the others are 0
\* (Math.random() returned 0.5), so that every norm of the iteration is the
\* square root of a square.
RandomInits(dim) ==
  {Array([i \in 1..dim |-> IF i = k THEN RandomValue ELSE Zero]) : k \in 1..dim}

\* event.clientX, event.clientY
Pointers == {<<315, 268>>, <<55, 173>>}

\* the same, and the client position of the lower left corner of the padded
\* area, where the points of a batch of equal vectors are drawn
EnginePointers == Pointers \cup {<<50, 268>>}

\* canvas.getBoundingClientRect(): left, top, width, height
RectLeft == 10
RectTop == 20
Width == 600
Height == 288

(***************************************************************************)
(* The projection effect                                                   *)
(***************************************************************************)
rawVectors(vs) == Array([k \in 1..Len(vs) |-> vs[k].vector])

DimOf(vs) == IF Len(vs) = 0 THEN 0 ELSE Len(vs[1].vector)

\* every outcome of projectTo2D(rawVectors, queryVector) over the random
\* draws, tabulated once per batch and query
ProjTable ==
  {<<ps[1], ps[3], {projectTo2D(rawVectors(ps[1]), ps[3], r1, r2) :
                      r1 \in RandomInits(DimOf(ps[1])), r2 \in RandomInits(DimOf(ps[1]))}>> :
     ps \in PropSets \cup EngineSets}

Projections(vs, q) == UNION {t[3] : t \in {u \in ProjTable : u[1] = vs /\ u[2] = q}}

\* the prop with its default: searchResults = []
EffectiveResults(sr) == IF sr = None THEN <<>> ELSE sr[1]

\* the positions of the results taken for their ids
searchResultIndices(sr) == {k : k \in 1..Len(sr)}

\* new Set(searchResults.map(r => r.id))
searchResultIds(sr) == {sr[k].id : k \in 1..Len(sr)}

\* new Map(searchResults.map(r => [r.id, r.score])).get(id)
scoreMapGet(sr, id) ==
  LET ks == {k \in 1..Len(sr) : sr[k].id = id}
  IN  IF ks = {} THEN None
      ELSE Some(sr[CHOOSE k \in ks : \A j \in ks : j <= k].score)

makePoints(vs, sr, projected) ==
  Array([i \in 1..Len(projected) |->
     [x |-> projected[i][1],
      y |-> projected[i][2],
      id |-> vs[i].id,
      metadata |-> vs[i].metadata,
      isSearchResult |-> vs[i].id \in searchResultIds(sr),
      score |-> scoreMapGet(sr, vs[i].id),
      originalVector |-> vs[i].vector]])


(***************************************************************************)
(* View transform, draw pass and hit test                                  *)
(***************************************************************************)
NoBounds == [minX |-> PosInf, maxX |-> NegInf, minY |-> PosInf, maxY |-> NegInf]

extend(b, x, y) ==
  [minX |-> MathMin(b.minX, x), maxX |-> MathMax(b.maxX, x),
   minY |-> MathMin(b.minY, y), maxY |-> MathMax(b.maxY, y)]

\* for (const p of projectedPoints) { minX = Math.min(minX, p.x) ... }
RECURSIVE boundsFrom(_, _, _)
boundsFrom(points, k, b) ==
  IF k > Len(points) THEN b
  ELSE boundsFrom(points, k + 1, extend(b, points[k].x, points[k].y))

\* if (queryPoint) { minX = Math.min(minX, queryPoint.x) ... }
withQuery(b, qp) == IF qp # None THEN extend(b, qp[1][1], qp[1][2]) ELSE b

\* bounds of the draw pass: the points, then the query point if present
drawBounds(points, qp) == withQuery(boundsFrom(points, 1, NoBounds), qp)

\* bounds of the hover check in handleMouseMove
hoverBounds(points) == boundsFrom(points, 1, NoBounds)

padding == 40

\* the transform with pan added before the zoom is applied
transformPanZoomed(x, y, b, width, height, z, p) ==
  LET rangeX == OrOne(Sub(b.maxX, b.minX))
      rangeY == OrOne(Sub(b.maxY, b.minY))
      tx == Add(Mul(Div(Sub(x, b.minX), rangeX), I(width - 2 * padding)), I(padding))
      ty == Sub(I(height),
                Add(Mul(Div(Sub(y, b.minY), rangeY), I(height - 2 * padding)), I(padding)))
      cx == Num(width, 2)
      cy == Num(height, 2)
      zoomedX == Add(Mul(Add(Sub(tx, cx), I(p.x)), z), cx)
      zoomedY == Add(Mul(Add(Sub(ty, cy), I(p.y)), z), cy)
  IN  <<zoomedX, zoomedY>>

\* the transform with the zoom applied about the canvas origin
transformAboutOrigin(x, y, b, width, height, z, p) ==
  LET rangeX == OrOne(Sub(b.maxX, b.minX))
      rangeY == OrOne(Sub(b.maxY, b.minY))
      tx == Add(Mul(Div(Sub(x, b.minX), rangeX), I(width - 2 * padding)), I(padding))
      ty == Sub(I(height),
                Add(Mul(Div(Sub(y, b.minY), rangeY), I(height - 2 * padding)), I(padding)))
      zoomedX == Add(Mul(tx, z), I(p.x))
      zoomedY == Add(Mul(ty, z), I(p.y))
  IN  <<zoomedX, zoomedY>>

\* the transform with the zoom applied about the corner of the padded area
transformAboutPadding(x, y, b, width, height, z, p) ==
  LET rangeX == OrOne(Sub(b.maxX, b.minX))
      rangeY == OrOne(Sub(b.maxY, b.minY))
      tx == Add(Mul(Div(Sub(x, b.minX), rangeX), I(width - 2 * padding)), I(padding))
      ty == Sub(I(height),
                Add(Mul(Div(Sub(y, b.minY), rangeY), I(height - 2 * padding)), I(padding)))
      zoomedX == Add(Add(Mul(Sub(tx, I(padding)), z), I(padding)), I(p.x))
      zoomedY == Add(Add(Mul(Sub(ty, I(padding)), z), I(padding)), I(p.y))
  IN  <<zoomedX, zoomedY>>

\* the closure transform(x, y) of the draw pass
transform(x, y, b, width, height, z, p) ==
  LET rangeX == OrOne(Sub(b.maxX, b.minX))
      rangeY == OrOne(Sub(b.maxY, b.minY))
      tx == Add(Mul(Div(Sub(x, b.minX), rangeX), I(width - 2 * padding)), I(padding))
      ty == Sub(I(height),
                Add(Mul(Div(Sub(y, b.minY), rangeY), I(height - 2 * padding)), I(padding)))
      cx == Num(width, 2)
      cy == Num(height, 2)
      zoomedX == Add(Add(Mul(Sub(tx, cx), z), cx), I(p.x))
      zoomedY == Add(Add(Mul(Sub(ty, cy), z), cy), I(p.y))
  IN  <<zoomedX, zoomedY>>

\* the device position computed inline by the hover loop of handleMouseMove
hoverPosition(point, b, width, height, z, p) ==
  LET rangeX == OrOne(Sub(b.maxX, b.minX))
      rangeY == OrOne(Sub(b.maxY, b.minY))
      tx == Add(Mul(Div(Sub(point.x, b.minX), rangeX), I(width - 2 * padding)), I(padding))
      ty == Sub(I(height),
                Add(Mul(Div(Sub(point.y, b.minY), rangeY), I(height - 2 * padding)), I(padding)))
      cx == Num(width, 2)
      cy == Num(height, 2)
      zoomedX == Add(Add(Mul(Sub(tx, cx), z), cx), I(p.x))
      zoomedY == Add(Add(Mul(Sub(ty, cy), z), cy), I(p.y))
  IN  <<zoomedX, zoomedY>>

\* (mouseX - zoomedX) ** 2 + (mouseY - zoomedY) ** 2
distSq(mouseX, mouseY, pos) ==
  WSum(WSq(Sub(I(mouseX), pos[1])), WSq(Sub(I(mouseY), pos[2])))

\* the update of the loop that never replaces a point once one is kept
keepFirst(acc, point, dsq) ==
  IF acc.closest = None /\ WLess(dsq, acc.closestSq)
  THEN [closest |-> Some(point), closestSq |-> acc.closestSq]
  ELSE acc

\* the loop that keeps the first point found under the threshold
RECURSIVE hoverLoopFirst(_, _, _, _, _, _, _, _, _, _)
hoverLoopFirst(points, k, b, mouseX, mouseY, width, height, z, p, acc) ==
  IF k > Len(points) THEN acc.closest
  ELSE hoverLoopFirst(points, k + 1, b, mouseX, mouseY, width, height, z, p,
         keepFirst(acc, points[k],
                   distSq(mouseX, mouseY,
                          hoverPosition(points[k], b, width, height, z, p))))

\* the update that also replaces the kept point by one equally far
keepCloserOrEqual(acc, point, dsq) ==
  IF ~WLess(acc.closestSq, dsq)
  THEN [closest |-> Some(point), closestSq |-> dsq]
  ELSE acc

\* if (dist < closestDist) { closest = point; closestDist = dist }
keepCloser(acc, point, dsq) ==
  IF WLess(dsq, acc.closestSq)
  THEN [closest |-> Some(point), closestSq |-> dsq]
  ELSE acc

\* The loop over projectedPoints.  Math.sqrt is increasing on the
\* non-negative numbers and keeps NaN, so dist < closestDist is decided on
\* the squares; closestSq is the square of closestDist.
RECURSIVE hoverLoop(_, _, _, _, _, _, _, _, _, _)
hoverLoop(points, k, b, mouseX, mouseY, width, height, z, p, acc) ==
  IF k > Len(points) THEN acc.closest
  ELSE hoverLoop(points, k + 1, b, mouseX, mouseY, width, height, z, p,
         keepCloser(acc, points[k],
                    distSq(mouseX, mouseY,
                           hoverPosition(points[k], b, width, height, z, p))))

\* let closest = null; let closestDist = 20 * zoom; for (...) {...}
hoverTest(points, mouseX, mouseY, width, height, z, p) ==
  hoverLoop(points, 1, hoverBounds(points), mouseX, mouseY, width, height, z, p,
            [closest |-> None, closestSq |-> WSq(Mul(I(20), z))])

Op(op, id, x, y) == [op |-> op, id |-> id, x |-> x, y |-> y]

\* an operation painted at the device position pos
OpAt(op, id, pos) == Op(op, id, pos[1], pos[2])

\* the circles of the points whose isSearchResult is wanted, from point k on
RECURSIVE SelectOps(_, _, _, _, _, _, _, _, _)
SelectOps(points, k, b, width, height, z, p, wanted, op) ==
  IF k > Len(points) THEN <<>>
  ELSE (IF points[k].isSearchResult = wanted
        THEN <<OpAt(op, points[k].id,
                    transform(points[k].x, points[k].y, b, width, height, z, p))>>
        ELSE <<>>)
       \o SelectOps(points, k + 1, b, width, height, z, p, wanted, op)

\* the hover ring and the info panel of the point at device position pos
hoverOps(point, pos, width) ==
  <<Op("ring", point.id, pos[1], pos[2]),
    Op("panel", point.id, MathMin(Add(pos[1], I(15)), I(width - 180)),
                          MathMax(Sub(pos[2], I(60)), I(10)))>>

\* the draw pass with the highlighted points painted before the ordinary
\* ones
drawMatchesFirst(points, qp, hp, b, width, height, z, p) ==
  <<Op("background", 0, Zero, Zero), Op("grid", 0, Zero, Zero)>>
  \o SelectOps(points, 1, b, width, height, z, p, TRUE, "match")
  \o SelectOps(points, 1, b, width, height, z, p, FALSE, "point")
  \o (IF qp # None
      THEN <<OpAt("query", 0, transform(qp[1][1], qp[1][2], b, width, height, z, p))>>
      ELSE <<>>)
  \o (IF hp # None
      THEN hoverOps(hp[1], transform(hp[1].x, hp[1].y, b, width, height, z, p), width)
      ELSE <<>>)
  \o <<Op("legend", 0, I(20), I(height - 30))>>

\* the draw pass once the bounds b are known
drawWithin(points, qp, hp, b, width, height, z, p) ==
  <<Op("background", 0, Zero, Zero), Op("grid", 0, Zero, Zero)>>
  \o SelectOps(points, 1, b, width, height, z, p, FALSE, "point")
  \o SelectOps(points, 1, b, width, height, z, p, TRUE, "match")
  \o (IF qp # None
      THEN <<OpAt("query", 0, transform(qp[1][1], qp[1][2], b, width, height, z, p))>>
      ELSE <<>>)
  \o (IF hp # None
      THEN hoverOps(hp[1], transform(hp[1].x, hp[1].y, b, width, height, z, p), width)
      ELSE <<>>)
  \o <<Op("legend", 0, I(20), I(height - 30))>>

\* the draw pass without the branch for an empty point sequence
drawPassUnguarded(points, qp, hp, width, height, z, p) ==
  drawWithin(points, qp, hp, drawBounds(points, qp), width, height, z, p)

\* the draw effect: the operations painted on the canvas, in order
drawPass(points, qp, hp, width, height, z, p) ==
  IF Len(points) = 0
  THEN <<Op("background", 0, Zero, Zero), Op("nodata", 0, Num(width, 2), Num(height, 2))>>
  ELSE drawWithin(points, qp, hp, drawBounds(points, qp), width, height, z, p)


(***************************************************************************)
(* State of the component                                                  *)
(***************************************************************************)
VARIABLES
  vectors,          \* prop: the batch of documents
  searchResults,    \* prop: None when omitted, else Some(results)
  queryVector,      \* prop: None when undefined, else Some(vector)
  zoom, pan, isDragging, dragStart, hoveredPoint, projectedPoints, queryPoint,
  canvas,           \* what the last draw pass painted
  selected,         \* argument of the last onVectorClick call, if any
  mounted,          \* the first commit has run its effects
  pending,          \* an effect has set state and the re-render is still due
  evt,              \* the event handled by the last step
  projRan,          \* the projection effect ran in the last step
  budget            \* events the behaviour may still follow

vars == <<vectors, searchResults, queryVector, zoom, pan, isDragging, dragStart,
          hoveredPoint, projectedPoints, queryPoint, canvas, selected, mounted,
          pending, evt, projRan, budget>>

Event(type, x, y) == [type |-> type, x |-> x, y |-> y]

\* wheel events, zoom-control clicks, pointer-downs and renders by the parent
\* that a behaviour of Spec follows
MaxOps == 1

InitState(vs, sr, q, b) ==
  /\ vectors = vs
  /\ searchResults = sr
  /\ queryVector = q
  /\ zoom = One
  /\ pan = [x |-> 0, y |-> 0]
  /\ isDragging = FALSE
  /\ dragStart = [x |-> 0, y |-> 0]
  /\ hoveredPoint = None
  /\ projectedPoints = <<>>
  /\ queryPoint = None
  /\ canvas = <<>>
  /\ selected = None
  /\ mounted = FALSE
  /\ pending = TRUE
  /\ evt = Event("init", 0, 0)
  /\ projRan = FALSE
  /\ budget = b

\* events of each kind, and events in all, that a behaviour may still follow
Budget(wheel, button, drag, props, ops) ==
  [wheel |-> wheel, button |-> button, drag |-> drag, props |-> props, ops |-> ops]

Init ==
  \E ps \in PropSets :
    InitState(ps[1], ps[2], ps[3], Budget(MaxOps, MaxOps, MaxOps, MaxOps, MaxOps))

\* the projection effect without setQueryPoint(null) in the branch for an
\* empty batch
projectionEffectKeepsQuery(vs, sr, q) ==
  IF Len(vs) = 0
  THEN /\ projectedPoints' = <<>>
       /\ UNCHANGED queryPoint
  ELSE \E out \in Projections(vs, q) :
         /\ projectedPoints' = makePoints(vs, EffectiveResults(sr), out.projected)
         /\ queryPoint' = out.queryProjected

\* The body of the projection effect, for the props of the render it runs in.
projectionEffect(vs, sr, q) ==
  IF Len(vs) = 0
  THEN /\ projectedPoints' = <<>>
       /\ queryPoint' = None
  ELSE \E out \in Projections(vs, q) :
         /\ projectedPoints' = makePoints(vs, EffectiveResults(sr), out.projected)
         /\ queryPoint' = out.queryProjected

\* The commit that follows a handler: rendered says whether any state or prop
\* changed identity, depsChanged whether vectors, searchResults or queryVector
\* did.  An omitted searchResults is a fresh [] in every render.  The draw
\* effect of this render sees the points of this render; the points set by
\* the projection effect are drawn by the re-render they schedule.
Commit(rendered, depsChanged) ==
  LET runProjection == rendered /\ (~mounted \/ depsChanged \/ searchResults' = None)
  IN  /\ IF runProjection
         THEN projectionEffect(vectors', searchResults', queryVector')
         ELSE UNCHANGED <<projectedPoints, queryPoint>>
      /\ projRan' = runProjection
      /\ pending' = IF rendered THEN runProjection ELSE pending
      /\ canvas' = IF rendered
                   THEN drawPass(projectedPoints, queryPoint, hoveredPoint',
                                 Width, Height, zoom', pan')
                   ELSE canvas

Props == <<vectors, searchResults, queryVector>>

\* one more event of the given kind is followed
Spend(kind) ==
  /\ budget[kind] > 0
  /\ budget.ops > 0
  /\ budget' = [budget EXCEPT ![kind] = @ - 1, !.ops = @ - 1]

(***************************************************************************)
(* Steps                                                                   *)
(***************************************************************************)
\* first commit: every effect runs
Mount ==
  /\ ~mounted
  /\ mounted' = TRUE
  /\ evt' = Event("mount", 0, 0)
  /\ UNCHANGED <<Props, zoom, pan, isDragging, dragStart, hoveredPoint, selected, budget>>
  /\ Commit(TRUE, TRUE)

\* the re-render scheduled by a state update made in an effect
Rerender ==
  /\ mounted /\ pending
  /\ evt' = Event("rerender", 0, 0)
  /\ UNCHANGED <<Props, zoom, pan, isDragging, dragStart, hoveredPoint, selected,
                 mounted, budget>>
  /\ Commit(TRUE, FALSE)

\* the parent renders the component again, with new props or the same
PropsChange ==
  /\ mounted /\ Spend("props")
  /\ \E ps \in PropSets :
       /\ vectors' = ps[1]
       /\ searchResults' = ps[2]
       /\ queryVector' = ps[3]
  /\ evt' = Event("props", IF Props' # Props THEN 1 ELSE 0, 0)
  /\ UNCHANGED <<zoom, pan, isDragging, dragStart, hoveredPoint, selected, mounted>>
  /\ Commit(TRUE, Props' # Props)

handleMouseDown ==
  /\ mounted /\ Spend("drag")
  /\ \E c \in Pointers :
       /\ isDragging' = TRUE
       /\ dragStart' = [x |-> c[1] - pan.x, y |-> c[2] - pan.y]
       /\ evt' = Event("mousedown", c[1], c[2])
  /\ UNCHANGED <<Props, zoom, pan, hoveredPoint, selected, mounted>>
  /\ Commit(TRUE, FALSE)

\* handleMouseMove on an event whose client position is drawn from cs
handleMouseMoveOver(cs) ==
  /\ mounted
  /\ \E c \in cs :
       LET mouseX == c[1] - RectLeft
           mouseY == c[2] - RectTop
       IN  /\ evt' = Event("mousemove", c[1], c[2])
           /\ IF isDragging
              THEN /\ pan' = [x |-> c[1] - dragStart.x, y |-> c[2] - dragStart.y]
                   /\ UNCHANGED hoveredPoint
              ELSE IF Len(projectedPoints) = 0
              THEN UNCHANGED <<pan, hoveredPoint>>
              ELSE /\ hoveredPoint' = hoverTest(projectedPoints, mouseX, mouseY,
                                                Width, Height, zoom, pan)
                   /\ UNCHANGED pan
  /\ UNCHANGED <<Props, zoom, isDragging, dragStart, selected, mounted, budget>>
  /\ Commit(isDragging \/ hoveredPoint' # hoveredPoint, FALSE)

handleMouseMove == handleMouseMoveOver(Pointers)

\* the handler bound to onMouseUp alone: leaving the canvas ends no drag
handleMouseUpOnly ==
  /\ mounted
  /\ \E type \in {"mouseup", "mouseleave"} :
       /\ evt' = Event(type, 0, 0)
       /\ isDragging' = IF type = "mouseup" THEN FALSE ELSE isDragging
  /\ UNCHANGED <<Props, zoom, pan, dragStart, hoveredPoint, selected, mounted, budget>>
  /\ Commit(isDragging' # isDragging, FALSE)

\* the handler that also drops the hover target when the pointer is released
\* or leaves
handleMouseUpClearsHover ==
  /\ mounted
  /\ isDragging' = FALSE
  /\ hoveredPoint' = None
  /\ \E type \in {"mouseup", "mouseleave"} : evt' = Event(type, 0, 0)
  /\ UNCHANGED <<Props, zoom, pan, dragStart, selected, mounted, budget>>
  /\ Commit(isDragging \/ hoveredPoint # None, FALSE)

\* onMouseUp and onMouseLeave are both bound to handleMouseUp
handleMouseUp ==
  /\ mounted
  /\ isDragging' = FALSE
  /\ \E type \in {"mouseup", "mouseleave"} : evt' = Event(type, 0, 0)
  /\ UNCHANGED <<Props, zoom, pan, dragStart, hoveredPoint, selected, mounted, budget>>
  /\ Commit(isDragging, FALSE)

\* the click handler that passes the first record of the batch, whatever
\* its id
handleClickFirst ==
  /\ mounted
  /\ evt' = Event("click", 0, 0)
  /\ selected' =
       IF hoveredPoint # None /\ Len(vectors) > 0 THEN Some(vectors[1]) ELSE selected
  /\ UNCHANGED <<Props, zoom, pan, isDragging, dragStart, hoveredPoint, mounted, budget>>
  /\ Commit(FALSE, FALSE)

handleClick ==
  /\ mounted
  /\ evt' = Event("click", 0, 0)
  /\ selected' =
       IF hoveredPoint # None
       THEN LET ks == {k \in 1..Len(vectors) : vectors[k].id = hoveredPoint[1].id}
            IN  IF ks = {} THEN selected
                ELSE Some(vectors[CHOOSE k \in ks : \A j \in ks : k <= j])
       ELSE selected
  /\ UNCHANGED <<Props, zoom, pan, isDragging, dragStart, hoveredPoint, mounted, budget>>
  /\ Commit(FALSE, FALSE)

WheelDeltas == {-100, 100}

\* the wheel factors taken the other way round
zoomWheelSwapped(z, deltaY) ==
  LET delta == IF deltaY > 0 THEN Num(11, 10) ELSE Num(9, 10)
  IN  MathMax(Num(2, 10), MathMin(I(5), Mul(z, delta)))

zoomWheel(z, deltaY) ==
  LET delta == IF deltaY > 0 THEN Num(9, 10) ELSE Num(11, 10)
  IN  MathMax(Num(2, 10), MathMin(I(5), Mul(z, delta)))

handleWheel ==
  /\ mounted /\ Spend("wheel")
  /\ \E deltaY \in WheelDeltas :
       /\ zoom' = zoomWheel(zoom, deltaY)
       /\ evt' = Event("wheel", 0, deltaY)
  /\ UNCHANGED <<Props, pan, isDragging, dragStart, hoveredPoint, selected, mounted>>
  /\ Commit(zoom' # zoom, FALSE)

\* zoom-in by a factor of 1.5
zoomInCoarse(z) == MathMin(Mul(z, Num(3, 2)), I(5))

zoomIn(z) == MathMin(Mul(z, Num(12, 10)), I(5))

\* zoom-out without the lower clamp
zoomOutUnclamped(z) == Div(z, Num(12, 10))

zoomOut(z) == MathMax(Div(z, Num(12, 10)), Num(2, 10))

handleZoomIn ==
  /\ mounted /\ Spend("button")
  /\ zoom' = zoomIn(zoom)
  /\ evt' = Event("zoomin", 0, 0)
  /\ UNCHANGED <<Props, pan, isDragging, dragStart, hoveredPoint, selected, mounted>>
  /\ Commit(zoom' # zoom, FALSE)

handleZoomOut ==
  /\ mounted /\ Spend("button")
  /\ zoom' = zoomOut(zoom)
  /\ evt' = Event("zoomout", 0, 0)
  /\ UNCHANGED <<Props, pan, isDragging, dragStart, hoveredPoint, selected, mounted>>
  /\ Commit(zoom' # zoom, FALSE)

handleReset ==
  /\ mounted
  /\ zoom' = One
  /\ pan' = [x |-> 0, y |-> 0]
  /\ evt' = Event("reset", 0, 0)
  /\ UNCHANGED <<Props, isDragging, dragStart, hoveredPoint, selected, mounted, budget>>
  /\ Commit(TRUE, FALSE)

Next ==
  \/ Mount
  \/ Rerender
  \/ PropsChange
  \/ handleMouseDown
  \/ handleMouseMove
  \/ handleMouseUp
  \/ handleClick
  \/ handleWheel
  \/ handleZoomIn
  \/ handleZoomOut
  \/ handleReset

Spec == Init /\ [][Next]_vars

(***************************************************************************)
(* The zoom controls alone, followed far enough to reach both ends of the  *)
(* zoom range                                                              *)
(***************************************************************************)
\* wheel events and zoom-control clicks that a behaviour of SpecZoom follows
MaxWheel == 1
MaxButton == 9

\* rendered without documents, so that only the zoom is computed
InitZoom ==
  InitState(<<>>, None, None, Budget(MaxWheel, MaxButton, 0, 0, MaxWheel + MaxButton))

NextZoom ==
  \/ Mount
  \/ Rerender
  \/ handleWheel
  \/ handleZoomIn
  \/ handleZoomOut
  \/ handleReset

SpecZoom == InitZoom /\ [][NextZoom]_vars


(***************************************************************************)
(* The view transform as a function of the view state: the component is    *)
(* followed from a zoom and a pan that the controls and drags lead to.     *)
(***************************************************************************)
ZoomLevels == {Num(1, 5), One, I(5)}

PanSamples == {[x |-> 0, y |-> 0], [x |-> 30, y |-> -20], [x |-> -260, y |-> -95]}

InitTransform ==
  \E ps \in PropSets, z \in ZoomLevels, p \in PanSamples :
    /\ vectors = ps[1]
    /\ searchResults = ps[2]
    /\ queryVector = ps[3]
    /\ zoom = z
    /\ pan = p
    /\ isDragging = FALSE
    /\ dragStart = [x |-> 0, y |-> 0]
    /\ hoveredPoint = None
    /\ projectedPoints = <<>>
    /\ queryPoint = None
    /\ canvas = <<>>
    /\ selected = None
    /\ mounted = FALSE
    /\ pending = TRUE
    /\ evt = Event("init", 0, 0)
    /\ projRan = FALSE
    /\ budget = Budget(0, 0, 0, 0, 0)

NextTransform ==
  \/ Mount
  \/ Rerender

SpecTransform == InitTransform /\ [][NextTransform]_vars

(***************************************************************************)
(* The zoom controls and the reset control, followed from a zoom and a pan *)
(* that earlier controls and drags lead to.                                *)
(***************************************************************************)
\* wheel events and zoom-control clicks that a behaviour of SpecControls
\* follows
MaxClicks == 3

InitControls ==
  \E z \in ZoomLevels, p \in PanSamples :
    /\ vectors = <<>>
    /\ searchResults = None
    /\ queryVector = None
    /\ zoom = z
    /\ pan = p
    /\ isDragging = FALSE
    /\ dragStart = [x |-> 0, y |-> 0]
    /\ hoveredPoint = None
    /\ projectedPoints = <<>>
    /\ queryPoint = None
    /\ canvas = <<>>
    /\ selected = None
    /\ mounted = FALSE
    /\ pending = TRUE
    /\ evt = Event("init", 0, 0)
    /\ projRan = FALSE
    /\ budget = Budget(MaxClicks, MaxClicks, 0, 0, MaxClicks)

NextControls ==
  \/ Mount
  \/ Rerender
  \/ handleWheel
  \/ handleZoomIn
  \/ handleZoomOut
  \/ handleReset

SpecControls == InitControls /\ [][NextControls]_vars

(***************************************************************************)
(* The projection engine, followed on degenerate batches, on a batch with  *)
(* a query vector and on a batch that spans fewer dimensions than it has.  *)
(***************************************************************************)
InitEngine ==
  \E ps \in EngineSets : InitState(ps[1], ps[2], ps[3], Budget(0, 0, 0, 0, 0))

NextEngine ==
  \/ Mount
  \/ Rerender
  \/ handleMouseMoveOver(EnginePointers)
  \/ handleMouseUp
  \/ handleClick
  \/ handleReset

SpecEngine == InitEngine /\ [][NextEngine]_vars

(***************************************************************************)
(* Properties                                                              *)
(***************************************************************************)
\* C1: the projection effect runs only in the first commit and in a commit
\* whose vectors, searchResults or queryVector differ from those of the
\* commit before; it never runs in the commit that follows a pointer-down,
\* pointer-move, pointer-up, pointer-leave, wheel, zoom-in, zoom-out, reset
\* or hover step, nor in a re-render that brings no new inputs.
C1_ProjectionOnlyOnInputChange ==
  (projRan /\ Len(vectors) > 0) =>
    (evt.type = "mount" \/ (evt.type = "props" /\ evt.x = 1))

\* C2: once the first commit has run, projectedPoints is as long as vectors,
\* with or without a query vector, and point i carries the id of vectors[i].
C2_LengthAndIds ==
  mounted =>
    /\ Len(projectedPoints) = Len(vectors)
    /\ \A i \in 1..Len(projectedPoints) : projectedPoints[i].id = vectors[i].id

\* a projection with a query vector has left four points and the query point
C2_Witness ==
  /\ mounted /\ queryVector # None /\ queryPoint # None
  /\ Len(projectedPoints) = 4

\* C3: once the first commit has run, a point has isSearchResult exactly when
\* its id is the id of one of the current searchResults; a point has a score,
\* that of a result with its id, exactly when isSearchResult; and every point
\* is the point of a document, so a result id no document carries has none.
C3_SearchFlags ==
  mounted =>
    LET sr == IF searchResults = None THEN <<>> ELSE searchResults[1]
    IN  \A i \in 1..Len(projectedPoints) :
          LET pt == projectedPoints[i]
              hits == {k \in 1..Len(sr) : sr[k].id = pt.id}
          IN  /\ pt.isSearchResult <=> hits # {}
              /\ pt.isSearchResult <=> pt.score # None
              /\ pt.score # None => \E k \in hits : pt.score = Some(sr[k].score)
              /\ \E j \in 1..Len(vectors) : vectors[j].id = pt.id

\* points with and without the flag, under results that name an unknown id
C3_Witness ==
  /\ mounted /\ searchResults = Some(Results)
  /\ \E i, j \in 1..Len(projectedPoints) :
       /\ projectedPoints[i].isSearchResult /\ projectedPoints[i].score = Some(Num(3, 4))
       /\ ~projectedPoints[j].isSearchResult /\ projectedPoints[j].score = None
  /\ \A i \in 1..Len(projectedPoints) : projectedPoints[i].id # 9

\* C4: after any sequence of wheel events, zoom-in clicks, zoom-out clicks
\* and resets from zoom = 1, zoom lies in [0.2, 5].
C4_ZoomInRange == Le(Num(1, 5), zoom) /\ Le(zoom, I(5))

\* a zoom-out click that the lower clamp cut short
C4_Witness == evt.type = "zoomout" /\ zoom = Num(1, 5) /\ budget.button = 0


\* h is a hit-test result for the pointer at (mouseX, mouseY): a point at
\* minimal device distance among all points, that distance below 20 * zoom,
\* or None when no point is below 20 * zoom.
IsHit(h, points, mouseX, mouseY, z, p) ==
  LET b == hoverBounds(points)
      dsq(k) == distSq(mouseX, mouseY, hoverPosition(points[k], b, Width, Height, z, p))
      within == {k \in 1..Len(points) : WLess(dsq(k), WSq(Mul(I(20), z)))}
  IN  IF within = {} THEN h = None
      ELSE \E k \in within :
             /\ h = Some(points[k])
             /\ \A j \in 1..Len(points) : ~WLess(dsq(j), dsq(k))

\* C5: the interaction is Idle or Dragging; pointer-down leads to Dragging
\* and pointer-up and pointer-leave lead to Idle, from either state, and no
\* other step changes the state.  A pointer-move in Dragging sets pan from
\* the anchor and leaves the hover target alone; a pointer-move in Idle
\* leaves pan alone and, whenever there are points, makes the hover target
\* the result of the hit-test.
C5_Step ==
  /\ isDragging' = IF evt'.type = "mousedown" THEN TRUE
                   ELSE IF evt'.type \in {"mouseup", "mouseleave"} THEN FALSE
                   ELSE isDragging
  /\ (evt'.type = "mousemove" /\ isDragging) =>
       /\ pan' = [x |-> evt'.x - dragStart.x, y |-> evt'.y - dragStart.y]
       /\ hoveredPoint' = hoveredPoint
  /\ (evt'.type = "mousemove" /\ ~isDragging) =>
       /\ pan' = pan
       /\ Len(projectedPoints) > 0 =>
            IsHit(hoveredPoint', projectedPoints, evt'.x - RectLeft, evt'.y - RectTop,
                  zoom, pan)

C6_Step ==
  /\ evt'.type = "mousedown" =>
       dragStart' = [x |-> evt'.x - pan.x, y |-> evt'.y - pan.y]
  /\ (evt'.type = "mousemove" /\ isDragging) =>
       pan' = [x |-> evt'.x - dragStart.x, y |-> evt'.y - dragStart.y]
  /\ (isDragging /\ evt'.type # "mousemove") => pan' = pan

C6_DragPan == [][C6_Step]_vars

\* C7: after a pointer-move in Idle over a non-empty point set, the hover
\* target is a point at minimal device distance from the pointer, that
\* distance below 20 * zoom, and it is None exactly when no point is below
\* 20 * zoom; a nearer point later in the sequence wins over an earlier one.
C7_Step ==
  (evt'.type = "mousemove" /\ ~isDragging /\ Len(projectedPoints) > 0) =>
    IsHit(hoveredPoint', projectedPoints, evt'.x - RectLeft, evt'.y - RectTop, zoom, pan)

C8_SamePositions ==
  mounted =>
    /\ Len(projectedPoints) > 0 =>
         hoverBounds(projectedPoints) = drawBounds(projectedPoints, queryPoint)
    /\ \A k \in 1..Len(projectedPoints) :
         hoverPosition(projectedPoints[k], hoverBounds(projectedPoints),
                       Width, Height, zoom, pan)
           = transform(projectedPoints[k].x, projectedPoints[k].y,
                       drawBounds(projectedPoints, queryPoint), Width, Height, zoom, pan)

\* the device position of data point (x, y) under the current points, query
\* point and viewport, for zoom z and pan p
toDevice(x, y, z, p) ==
  transform(x, y, drawBounds(projectedPoints, queryPoint), Width, Height, z, p)

Shifted(pos, p) == <<Add(pos[1], I(p.x)), Add(pos[2], I(p.y))>>

\* C9: pan composes additively and independently of zoom: for every point
\* and the query point, under the zoom of the state and for every pan,
\* toDevice(p, zoom, pan) = toDevice(p, zoom, (0,0)) + pan.
C9_PanAdditive ==
  \A p \in PanSamples \cup {pan} :
    /\ \A k \in 1..Len(projectedPoints) :
         toDevice(projectedPoints[k].x, projectedPoints[k].y, zoom, p)
           = Shifted(toDevice(projectedPoints[k].x, projectedPoints[k].y, zoom,
                              [x |-> 0, y |-> 0]), p)
    /\ queryPoint # None =>
         toDevice(queryPoint[1][1], queryPoint[1][2], zoom, p)
           = Shifted(toDevice(queryPoint[1][1], queryPoint[1][2], zoom,
                              [x |-> 0, y |-> 0]), p)

\* points with finite coordinates are drawn at zoom 5 under a pan
C9_Witness ==
  /\ mounted /\ zoom = I(5) /\ pan = [x |-> 30, y |-> -20]
  /\ \E i \in 1..Len(canvas) :
       canvas[i].op = "point" /\ IsFinite(canvas[i].x) /\ IsFinite(canvas[i].y)

\* the bounds of the draw pass are finite
FiniteBounds(b) ==
  IsFinite(b.minX) /\ IsFinite(b.maxX) /\ IsFinite(b.minY) /\ IsFinite(b.maxY)

\* the centre of the bounding box b goes to the centre of the viewport
CentreToCentre(b) ==
  \A z \in ZoomLevels :
    transform(Div(Add(b.minX, b.maxX), I(2)), Div(Add(b.minY, b.maxY), I(2)),
              b, Width, Height, z, [x |-> 0, y |-> 0])
      = <<Num(Width, 2), Num(Height, 2)>>

\* C10 as stated: for every point set with bounds, those of zero x or y
\* range included, the point at the centre of the bounding box goes to the
\* viewport centre (W/2, H/2) under pan (0,0), for zoom 0.2, 1 and 5.
C10_CentreAnyRange ==
  LET b == drawBounds(projectedPoints, queryPoint)
  IN  (Len(projectedPoints) > 0 /\ FiniteBounds(b)) => CentreToCentre(b)

\* C10: for every point set whose bounds have a non-zero x range and a
\* non-zero y range, the point at the centre of the bounding box goes to the
\* viewport centre (W/2, H/2) under pan (0,0), for zoom 0.2, 1 and 5.
C10_CentreNonZeroRange ==
  LET b == drawBounds(projectedPoints, queryPoint)
  IN  (Len(projectedPoints) > 0 /\ FiniteBounds(b) /\ b.minX # b.maxX /\ b.minY # b.maxY)
        => CentreToCentre(b)

\* points spread over both axes have been projected and drawn
C10_Witness ==
  LET b == drawBounds(projectedPoints, queryPoint)
  IN  /\ mounted /\ ~pending /\ Len(projectedPoints) > 0
      /\ FiniteBounds(b) /\ b.minX # b.maxX /\ b.minY # b.maxY

NoPan == [x |-> 0, y |-> 0]

\* the data point that the bounds b place half a range above their minimum
\* on both axes, a zero range counting as 1 as it does in the transform
MidRange(b) ==
  <<Add(b.minX, Div(OrOne(Sub(b.maxX, b.minX)), I(2))),
    Add(b.minY, Div(OrOne(Sub(b.maxY, b.minY)), I(2)))>>

\* the data points that C11 is checked on: the points, the query point and
\* the point half a range above the minimum
CentreCandidates(b) ==
  {<<projectedPoints[k].x, projectedPoints[k].y>> : k \in 1..Len(projectedPoints)}
    \cup (IF queryPoint # None THEN {queryPoint[1]} ELSE {})
    \cup {MidRange(b)}

\* C11: zoom is applied about the viewport centre: a data point whose
\* device position before the zoom (its position at zoom 1) is the viewport
\* centre (W/2, H/2) is drawn at (W/2, H/2) for every zoom, under pan (0,0).
C11_ZoomAboutCentre ==
  LET b == drawBounds(projectedPoints, queryPoint)
  IN  (Len(projectedPoints) > 0 /\ FiniteBounds(b)) =>
        \A c \in CentreCandidates(b) :
          transform(c[1], c[2], b, Width, Height, One, NoPan)
              = <<Num(Width, 2), Num(Height, 2)>>
            => \A z \in ZoomLevels \cup {zoom} :
                 transform(c[1], c[2], b, Width, Height, z, NoPan)
                   = <<Num(Width, 2), Num(Height, 2)>>

\* points on one line have been projected: the y range is zero and the
\* point half a range above the minimum is at the viewport centre at zoom 1
C11_Witness ==
  LET b == drawBounds(projectedPoints, queryPoint)
  IN  /\ mounted /\ Len(projectedPoints) > 0 /\ FiniteBounds(b)
      /\ b.minY = b.maxY /\ b.minX # b.maxX /\ zoom = I(5)
      /\ transform(MidRange(b)[1], MidRange(b)[2], b, Width, Height, One, NoPan)
           = <<Num(Width, 2), Num(Height, 2)>>

\* a clamped to [0.2, 5.0]
Clamp(a) ==
  IF Lt(a, Num(1, 5)) THEN Num(1, 5) ELSE IF Lt(I(5), a) THEN I(5) ELSE a

\* C12: a wheel event with downward scroll (deltaY > 0) multiplies zoom by
\* 0.9 and one with upward scroll by 1.1; the zoom-in control multiplies
\* zoom by 1.2 and the zoom-out control divides it by 1.2; each result is
\* clamped to [0.2, 5.0]; and none of these steps changes pan.
C12_Step ==
  /\ evt'.type = "wheel" =>
       /\ zoom' = Clamp(Mul(zoom, IF evt'.y > 0 THEN Num(9, 10) ELSE Num(11, 10)))
       /\ pan' = pan
  /\ evt'.type = "zoomin" =>
       /\ zoom' = Clamp(Mul(zoom, Num(12, 10)))
       /\ pan' = pan
  /\ evt'.type = "zoomout" =>
       /\ zoom' = Clamp(Div(zoom, Num(12, 10)))
       /\ pan' = pan

C12_ZoomFactors == [][C12_Step]_vars

\* a downward scroll at zoom 5 under a pan has led to zoom 4.5, same pan
C12_Witness ==
  /\ evt.type = "wheel" /\ evt.y > 0
  /\ zoom = Num(9, 2) /\ pan = [x |-> 30, y |-> -20]

\* C13: the reset control yields zoom = 1 and pan = (0,0) from any view
\* state, and a step that follows a reset and is not a wheel event, a
\* zoom-control click or a pointer-down leaves zoom and pan as the reset
\* set them.
C13_Step ==
  /\ evt'.type = "reset" => (zoom' = One /\ pan' = NoPan)
  /\ (evt.type = "reset" /\ evt'.type \notin {"wheel", "zoomin", "zoomout", "mousedown"})
       => (zoom' = zoom /\ pan' = pan)

C13_ResetHolds == [][C13_Step]_vars

\* zoom after k clicks on the zoom-in control, and on the zoom-out control;
\* both controls keep NaN
RECURSIVE zoomInTimes(_, _)
zoomInTimes(k, z) == IF k = 0 \/ IsNaN(z) THEN z ELSE zoomInTimes(k - 1, zoomIn(z))

RECURSIVE zoomOutTimes(_, _)
zoomOutTimes(k, z) == IF k = 0 \/ IsNaN(z) THEN z ELSE zoomOutTimes(k - 1, zoomOut(z))

\* x * 1.2^i is at most 5 for i = 1..j
RECURSIVE UpWithin(_, _)
UpWithin(j, x) ==
  IF j = 0 \/ IsNaN(x) THEN ~IsNaN(x)
  ELSE Le(Mul(x, Num(12, 10)), I(5)) /\ UpWithin(j - 1, Mul(x, Num(12, 10)))

\* k zoom-in clicks from z in [0.2, 5.0] trigger no clamping, and neither do
\* the k zoom-out clicks that follow, which stay at or above z
StaysInRange(k, z) == Le(Num(1, 5), z) /\ Le(z, I(5)) /\ UpWithin(k, z)

\* C14: from every zoom in [0.2, 5.0] from which ten zoom-in clicks followed
\* by ten zoom-out clicks trigger no clamping, these twenty clicks return
\* zoom to its value (exactly, in exact arithmetic).
C14_ZoomRoundTrip ==
  StaysInRange(10, zoom) => zoomOutTimes(10, zoomInTimes(10, zoom)) = zoom

\* two zoom-out clicks have led to zoom 25/36, from which the twenty clicks
\* stay in range
C14_Witness ==
  /\ evt.type = "zoomout" /\ zoom = Num(25, 36)
  /\ StaysInRange(10, zoom)
  /\ zoomInTimes(10, zoom) # zoom

\* the canvas with the background and the 'no data' message alone
NoDataCanvas ==
  <<[op |-> "background", id |-> 0, x |-> Zero, y |-> Zero],
    [op |-> "nodata", id |-> 0, x |-> Num(Width, 2), y |-> Num(Height, 2)]>>

\* C15: for an empty batch projectTo2D returns no points and no query
\* point whatever the query vector and the random draws are; once the first
\* commit has run with an empty batch, projectedPoints is empty and
\* queryPoint is null; and the draw pass of the re-render that follows
\* paints the background and the 'no data' message and nothing else.
C15_EmptyBatch ==
  /\ \A q \in {None, Some(Vec(104, 0))}, r1, r2 \in RandomInits(2) \cup {<<>>} :
       projectTo2D(<<>>, q, r1, r2) = [projected |-> <<>>, queryProjected |-> None]
  /\ (mounted /\ Len(vectors) = 0) => (projectedPoints = <<>> /\ queryPoint = None)
  /\ (mounted /\ Len(vectors) = 0 /\ evt.type = "rerender") => canvas = NoDataCanvas

\* the parent has replaced a batch by the empty one and the re-render has
\* painted the 'no data' message
C15_Witness ==
  /\ mounted /\ Len(vectors) = 0 /\ budget.props = 0
  /\ evt.type = "rerender" /\ projectedPoints = <<>> /\ canvas = NoDataCanvas

\* every document of the batch carries the vector of the first
AllSameVector(vs) == \A k \in 1..Len(vs) : vs[k].vector = vs[1].vector

\* C16: once the first commit has run for a batch of one vector, or of N
\* identical vectors, of any dimension D >= 1 and without a query vector,
\* every point is at exactly (0,0), whatever the random draws were.
C16_DegenerateAtOrigin ==
  (mounted /\ Len(vectors) > 0 /\ queryVector = None /\ AllSameVector(vectors)) =>
    \A i \in 1..Len(projectedPoints) :
      projectedPoints[i].x = Zero /\ projectedPoints[i].y = Zero

\* allVectors of projectTo2D: the batch, then the query vector if present
WorkingSet(vs, q) ==
  IF q # None THEN Append(rawVectors(vs), q[1]) ELSE rawVectors(vs)

\* mean of projectTo2D
MeanOf(ws) ==
  meanFrom(ws, Len(ws[1]), Len(ws), 1, Array([i \in 1..Len(ws[1]) |-> Zero]))

\* centered of projectTo2D
CenteredSet(vs, q) == centerAll(WorkingSet(vs, q), MeanOf(WorkingSet(vs, q)))

AllFinite(v) == \A i \in 1..Len(v) : IsFinite(v[i])

\* the unit vectors along the coordinate axes
UnitAxes(dim) == {Array([i \in 1..dim |-> IF i = k THEN One ELSE Zero]) : k \in 1..dim}

\* C17: for every non-empty batch and every random draw, both axes and
\* every projected coordinate are finite numbers (no NaN is produced or
\* propagated), and a pass of either power iteration whose iterate has a
\* norm not above 1e-10 keeps the previous direction.
C17_NoNaN ==
  (mounted /\ Len(vectors) > 0) =>
    /\ \A i \in 1..Len(projectedPoints) :
         IsFinite(projectedPoints[i].x) /\ IsFinite(projectedPoints[i].y)
    /\ queryPoint # None => AllFinite(queryPoint[1])
    /\ \A r1, r2 \in RandomInits(DimOf(vectors)) :
         \A centered \in {CenteredSet(vectors, queryVector)} :
           \A pc1 \in {powerIteration(centered, DimOf(vectors), r1)} :
             \A pc2 \in {powerIterationOrthogonal(centered, DimOf(vectors), pc1, r2)} :
               AllFinite(pc1) /\ AllFinite(pc2)
    /\ \A v \in UnitAxes(DimOf(vectors)) :
         \A data \in {CenteredSet(vectors, queryVector)} :
           \A result \in {covApply(data, DimOf(vectors), v)} :
             ~AboveEps(MathSqrt(dotProduct(result, result))) =>
               /\ powerStep(data, DimOf(vectors), v) = v
               /\ \A pc1 \in UnitAxes(DimOf(vectors)) :
                    orthoStep(data, DimOf(vectors), pc1, v) = v

\* the pairs that the working set of vs and q receives as a batch of
\* ordinary members, without a query vector, under the draws r1 and r2
AsMembers(vs, q, r1, r2) == projectTo2D(WorkingSet(vs, q), None, r1, r2).projected

\* points and query point are the pairs whole, split before the last one
SplitsAs(points, qp, whole) ==
  /\ Len(whole) = Len(points) + 1
  /\ qp = Some(whole[Len(whole)])
  /\ \A i \in 1..Len(points) : points[i] = whole[i]

\* C18: with a query vector, the query vector is the last member of the
\* working set that is centred and that both axes are computed from; the
\* query point is the pair this last member receives, equal to the pair it
\* receives as the last ordinary member of a batch under the same draws;
\* and the other pairs are the points, in input order: point i is the
\* projection of vectors[i] and carries its id and vector.
C18_QueryConsistency ==
  (mounted /\ Len(vectors) > 0 /\ queryVector # None) =>
    /\ \A r1, r2 \in RandomInits(DimOf(vectors)) :
         \A centered \in {CenteredSet(vectors, queryVector)} :
           \A pc1 \in {powerIteration(centered, DimOf(vectors), r1)} :
             \A pc2 \in {powerIterationOrthogonal(centered, DimOf(vectors), pc1, r2)} :
               \A out \in {projectTo2D(rawVectors(vectors), queryVector, r1, r2)} :
                 /\ SplitsAs(out.projected, out.queryProjected,
                             AsMembers(vectors, queryVector, r1, r2))
                 /\ centered[Len(centered)]
                      = Array([i \in 1..DimOf(vectors) |->
                           Sub(queryVector[1][i],
                               MeanOf(WorkingSet(vectors, queryVector))[i])])
                 /\ out.queryProjected =
                      Some(<<dotProduct(centered[Len(centered)], pc1),
                             dotProduct(centered[Len(centered)], pc2)>>)
    /\ \E r1, r2 \in RandomInits(DimOf(vectors)) :
         SplitsAs(Array([i \in 1..Len(projectedPoints) |->
                     <<projectedPoints[i].x, projectedPoints[i].y>>]),
                  queryPoint, AsMembers(vectors, queryVector, r1, r2))
    /\ Len(projectedPoints) = Len(vectors)
    /\ \A i \in 1..Len(projectedPoints) :
         /\ projectedPoints[i].id = vectors[i].id
         /\ projectedPoints[i].originalVector = vectors[i].vector

\* the batch with the query vector (0, -1) has been projected on the two
\* coordinate axes: the query point is (0, -1) and the first point (3, 0)
C18_Witness ==
  /\ mounted /\ vectors = Spread2 /\ queryVector = Some(Vec(0, -1))
  /\ queryPoint = Some(<<Zero, I(-1)>>)
  /\ projectedPoints[1].x = I(3) /\ projectedPoints[1].y = Zero

\* the sum of component i over the vectors of ws from k on
RECURSIVE ColumnSum(_, _, _)
ColumnSum(ws, i, k) ==
  IF k > Len(ws) THEN Zero ELSE Add(ws[k][i], ColumnSum(ws, i, k + 1))

\* the x and y coordinates of the points, then of the query point if any
ProjectedPairs ==
  Array([i \in 1..Len(projectedPoints) |->
           <<projectedPoints[i].x, projectedPoints[i].y>>])
    \o (IF queryPoint # None THEN <<queryPoint[1]>> ELSE <<>>)

\* C19: for a non-empty batch the projection works on the working set (the
\* batch, then the query vector if present) centred by its component-wise
\* mean: the centred vectors sum to the zero vector, each centred vector
\* plus the mean is the original vector, and the projected coordinates of
\* the whole working set, points and query point, sum to (0,0).
C19_Centering ==
  (mounted /\ Len(vectors) > 0) =>
    \A ws \in {WorkingSet(vectors, queryVector)} :
      \A mean \in {MeanOf(ws)} :
        \A centered \in {centerAll(ws, mean)} :
          /\ Len(centered) = Len(ws)
          /\ \A i \in 1..DimOf(vectors) :
               /\ Mul(mean[i], I(Len(ws))) = ColumnSum(ws, i, 1)
               /\ ColumnSum(centered, i, 1) = Zero
               /\ \A k \in 1..Len(ws) : Add(centered[k][i], mean[i]) = ws[k][i]
          /\ Len(ProjectedPairs) = Len(ws)
          /\ ColumnSum(ProjectedPairs, 1, 1) = Zero
          /\ ColumnSum(ProjectedPairs, 2, 1) = Zero

\* C20: for every non-empty batch and every random draw, the second axis
\* returned by the projection is orthogonal to the first, axis1 . axis2 = 0;
\* so is the initial vector of the second iteration once the component
\* along axis1 is removed, and so is the iterate after every covariance
\* application, orthogonalisation and renormalisation.
C20_Orthogonal ==
  (mounted /\ Len(vectors) > 0) =>
    \A r1, r2 \in RandomInits(DimOf(vectors)) :
      \A centered \in {CenteredSet(vectors, queryVector)} :
        \A pc1 \in {powerIteration(centered, DimOf(vectors), r1)} :
          \A v0 \in {normalise(removeComponent(r2, pc1))} :
            \A v1 \in {orthoStep(centered, DimOf(vectors), pc1, v0)} :
              \A pc2 \in {powerIterationOrthogonal(centered, DimOf(vectors), pc1, r2)} :
                /\ dotProduct(pc1, v0) = Zero
                /\ dotProduct(pc1, v1) = Zero
                /\ dotProduct(pc1, pc2) = Zero

\* the pass of powerIteration at v is skipped by the guard
Skipped1(data, dim, v) ==
  \A result \in {covApply(data, dim, v)} :
    ~AboveEps(MathSqrt(dotProduct(result, result)))

\* the pass of powerIterationOrthogonal at v is skipped by the guard
Skipped2(data, dim, pc1, v) ==
  \A result \in {removeComponent(covApply(data, dim, v), pc1)} :
    ~AboveEps(MathSqrt(dotProduct(result, result)))

\* C21: for every non-empty batch and every random draw, each axis returned
\* by the projection has length 1 when its last pass was not skipped by the
\* guard (the norm did not underflow), and also when its first pass, and
\* with it every pass, was skipped, so that the normalised initial
\* direction is returned.
C21_UnitLength ==
  (mounted /\ Len(vectors) > 0) =>
    \A r1, r2 \in RandomInits(DimOf(vectors)) :
      \A centered \in {CenteredSet(vectors, queryVector)} :
        \A pc1 \in {powerIteration(centered, DimOf(vectors), r1)} :
          \A v0 \in {normalise(removeComponent(r2, pc1))} :
            \A pc2 \in {powerIterationOrthogonal(centered, DimOf(vectors), pc1, r2)} :
              /\ (\/ ~Skipped1(centered, DimOf(vectors), pc1)
                  \/ Skipped1(centered, DimOf(vectors), normalise(r1)))
                   => dotProduct(pc1, pc1) = One
              /\ (\/ ~Skipped2(centered, DimOf(vectors), pc1, pc2)
                  \/ Skipped2(centered, DimOf(vectors), pc1, v0))
                   => dotProduct(pc2, pc2) = One

\* the place of a layer in the paint order
LayerRank(op) ==
  CASE op = "background" -> 1
    [] op = "grid" -> 2
    [] op = "point" -> 3
    [] op = "match" -> 4
    [] op = "query" -> 5
    [] op = "ring" -> 6
    [] op = "panel" -> 7
    [] op = "legend" -> 8
    [] OTHER -> 0

\* the positions of the canvas at which op is painted
Painted(op) == {i \in 1..Len(canvas) : canvas[i].op = op}

\* the canvas shows a draw pass over a non-empty point set
DrewPoints == Len(canvas) > 0 /\ Painted("nodata") = {}

\* C22: a draw pass over a non-empty point set paints background, grid,
\* ordinary points, highlighted points, query point, hover ring and panel,
\* legend, in this order and no layer before one that precedes it;
\* background, grid and legend are painted once, the query point and the
\* hover layers at most once; and once the draw pass has seen the current
\* points, every point is painted exactly once, as a highlighted point when
\* it is a search result and as an ordinary point otherwise, the query
\* layer is painted exactly when there is a query point and the hover
\* layers exactly when there is a hover target.
C22_PaintOrder ==
  /\ DrewPoints =>
       /\ \A i, j \in 1..Len(canvas) :
            i < j => LayerRank(canvas[i].op) <= LayerRank(canvas[j].op)
       /\ \A i \in 1..Len(canvas) : LayerRank(canvas[i].op) > 0
       /\ Painted("background") = {1} /\ Painted("grid") = {2}
       /\ Painted("legend") = {Len(canvas)}
       /\ Cardinality(Painted("query")) <= 1
       /\ Cardinality(Painted("ring")) <= 1
       /\ Cardinality(Painted("panel")) = Cardinality(Painted("ring"))
  /\ (mounted /\ ~pending /\ Len(projectedPoints) > 0) =>
       /\ DrewPoints
       /\ \A k \in 1..Len(projectedPoints) :
            /\ Cardinality({i \in Painted("point") \cup Painted("match") :
                              canvas[i].id = projectedPoints[k].id}) = 1
            /\ \A i \in Painted("match") :
                 canvas[i].id = projectedPoints[k].id => projectedPoints[k].isSearchResult
            /\ \A i \in Painted("point") :
                 canvas[i].id = projectedPoints[k].id => ~projectedPoints[k].isSearchResult
       /\ Cardinality(Painted("point") \cup Painted("match")) = Len(projectedPoints)
       /\ (Painted("query") # {}) <=> (queryPoint # None)
       /\ (Painted("ring") # {}) <=> (hoveredPoint # None)

\* a draw pass that has painted ordinary and highlighted points, the query
\* point and the hover layers
C22_Witness ==
  /\ mounted /\ ~pending
  /\ Painted("point") # {} /\ Painted("match") # {}
  /\ Painted("query") # {} /\ Painted("ring") # {} /\ Painted("panel") # {}

\* C23: whenever a draw pass paints the hover information panel, the
\* panel, 170 by 55 device units from its corner, lies inside the viewport
\* [0, W] x [0, H].
C23_PanelInside ==
  \A i \in Painted("panel") :
    /\ Le(Zero, canvas[i].x) /\ Le(Add(canvas[i].x, I(170)), I(Width))
    /\ Le(Zero, canvas[i].y) /\ Le(Add(canvas[i].y, I(55)), I(Height))

\* C24: after every pointer-move, Dragging or Idle, over points or over
\* none, the hover target is the result of the hit-test for the pointer
\* position against the points and the zoom and pan that the move leaves:
\* a point at minimal device distance below 20 * zoom, or None when there
\* is no such point.
C24_Step ==
  evt'.type = "mousemove" =>
    IsHit(hoveredPoint', projectedPoints, evt'.x - RectLeft, evt'.y - RectTop,
          zoom', pan')

C24_HoverRecomputed == [][C24_Step]_vars

\* the records of the current batch that carry the id of the hover target
RecordsOfHover ==
  IF hoveredPoint = None THEN {}
  ELSE {k \in 1..Len(vectors) : vectors[k].id = hoveredPoint[1].id}

\* C25: the selection callback is invoked only by a click; a click with a
\* hover target whose id a record of the current batch carries invokes it
\* once, with such a record (the first in the batch); a click with no hover
\* target, or with one whose id no record of the batch carries, invokes
\* nothing.
C25_Step ==
  /\ evt'.type # "click" => selected' = selected
  /\ evt'.type = "click" =>
       IF RecordsOfHover = {} THEN selected' = selected
       ELSE /\ \E k \in RecordsOfHover :
                 /\ selected' = Some(vectors[k])
                 /\ \A j \in RecordsOfHover : k <= j
            /\ selected'[1].id = hoveredPoint[1].id

C25_ClickSelects == [][C25_Step]_vars

\* a click has passed on the record of the hovered point
C25_Witness ==
  /\ evt.type = "click" /\ hoveredPoint # None /\ selected # None
  /\ selected[1].id = hoveredPoint[1].id /\ selected[1].id # vectors[1].id
  /\ \E k \in 1..Len(vectors) : vectors[k] = selected[1]

\* every point, and the query point if present, has the x (the y) coordinate
\* of the first point
SharedX(points, qp) ==
  /\ \A k \in 1..Len(points) : points[k].x = points[1].x
  /\ qp # None => qp[1][1] = points[1].x

SharedY(points, qp) ==
  /\ \A k \in 1..Len(points) : points[k].y = points[1].y
  /\ qp # None => qp[1][2] = points[1].y

RangeX(b) == OrOne(Sub(b.maxX, b.minX))
RangeY(b) == OrOne(Sub(b.maxY, b.minY))

\* the device positions the draw pass and the hover loop compute
DevicePositions(points, qp, z, p) ==
  {transform(points[k].x, points[k].y, drawBounds(points, qp), Width, Height, z, p) :
     k \in 1..Len(points)}
  \cup {hoverPosition(points[k], hoverBounds(points), Width, Height, z, p) :
          k \in 1..Len(points)}
  \cup (IF qp = None THEN {}
        ELSE {transform(qp[1][1], qp[1][2], drawBounds(points, qp), Width, Height, z, p)})

\* C26: when every projected point, and the query point if present, has the
\* same x (y) coordinate, the range of that axis is 1 in the draw pass and
\* in the hover loop, and every device coordinate they compute is finite.
C26_ZeroRange ==
  Len(projectedPoints) > 0 =>
    /\ SharedX(projectedPoints, queryPoint) =>
         /\ RangeX(drawBounds(projectedPoints, queryPoint)) = One
         /\ RangeX(hoverBounds(projectedPoints)) = One
    /\ SharedY(projectedPoints, queryPoint) =>
         /\ RangeY(drawBounds(projectedPoints, queryPoint)) = One
         /\ RangeY(hoverBounds(projectedPoints)) = One
    /\ SharedX(projectedPoints, queryPoint) \/ SharedY(projectedPoints, queryPoint) =>
         \A pos \in DevicePositions(projectedPoints, queryPoint, zoom, pan) :
           IsFinite(pos[1]) /\ IsFinite(pos[2])

\* the indices of the points under the hover threshold that no point is
\* closer to the pointer than
Nearest(points, mouseX, mouseY, z, p) ==
  LET dsq(k) == distSq(mouseX, mouseY,
                       hoverPosition(points[k], hoverBounds(points), Width, Height, z, p))
  IN  {k \in 1..Len(points) :
         /\ WLess(dsq(k), WSq(Mul(I(20), z)))
         /\ \A j \in 1..Len(points) : ~WLess(dsq(j), dsq(k))}

FirstOf(ks) == CHOOSE k \in ks : \A j \in ks : k <= j

\* C27: when two or more points are equally far from the pointer, under the
\* threshold, and no point is closer, a pointer-move in Idle makes the hover
\* target the one of them that comes first in projectedPoints.
C27_Step ==
  (evt'.type = "mousemove" /\ ~isDragging /\ Len(projectedPoints) > 0) =>
    \A ks \in {Nearest(projectedPoints, evt'.x - RectLeft, evt'.y - RectTop, zoom, pan)} :
      Cardinality(ks) >= 2 => hoveredPoint' = Some(projectedPoints[FirstOf(ks)])

C27_FirstOnTie == [][C27_Step]_vars

\* a pointer-move has picked the first of several points equally near
C27_Witness ==
  /\ evt.type = "mousemove" /\ ~isDragging /\ hoveredPoint # None
  /\ Cardinality(Nearest(projectedPoints, evt.x - RectLeft, evt.y - RectTop, zoom, pan)) >= 2
  /\ hoveredPoint[1] = projectedPoints[1]

\* C28: the hover target is None or one of the current projectedPoints,
\* whatever projections, pointer, wheel and click events came before.
C28_HoverIsCurrent ==
  hoveredPoint # None =>
    \E k \in 1..Len(projectedPoints) : projectedPoints[k] = hoveredPoint[1]

\* C29: wheel and the zoom buttons leave pan, the drag state, the anchor and
\* the hover target alone; a pointer-move in Dragging leaves zoom, the anchor
\* and the hover target alone; pointer-up and pointer-leave leave zoom, pan
\* and the hover target alone; a pointer-move in Idle leaves zoom and pan
\* alone; a re-render, a render with new props and the first commit leave
\* zoom, pan and the drag state alone.  So zoom changes only on wheel, the
\* zoom buttons and reset, pan only on a pointer-move in Dragging and reset,
\* the drag state only on pointer-down, pointer-up and pointer-leave, and
\* the anchor only on pointer-down.
C29_Step ==
  /\ evt'.type \in {"wheel", "zoomin", "zoomout"} =>
       /\ pan' = pan /\ isDragging' = isDragging
       /\ dragStart' = dragStart /\ hoveredPoint' = hoveredPoint
  /\ (evt'.type = "mousemove" /\ isDragging) =>
       zoom' = zoom /\ dragStart' = dragStart /\ hoveredPoint' = hoveredPoint
  /\ evt'.type \in {"mouseup", "mouseleave"} =>
       zoom' = zoom /\ pan' = pan /\ hoveredPoint' = hoveredPoint
  /\ (evt'.type = "mousemove" /\ ~isDragging) => zoom' = zoom /\ pan' = pan
  /\ evt'.type \in {"rerender", "props", "mount"} =>
       zoom' = zoom /\ pan' = pan /\ isDragging' = isDragging
  /\ zoom' # zoom => evt'.type \in {"wheel", "zoomin", "zoomout", "reset"}
  /\ pan' # pan => (evt'.type = "mousemove" /\ isDragging) \/ evt'.type = "reset"
  /\ isDragging' # isDragging => evt'.type \in {"mousedown", "mouseup", "mouseleave"}
  /\ dragStart' # dragStart => evt'.type = "mousedown"

C30_QueryPoint ==
  /\ queryPoint # None => Len(projectedPoints) > 0 /\ queryVector # None
  /\ (mounted /\ Len(vectors) > 0 /\ queryVector # None) => queryPoint # None
  /\ (mounted /\ ~pending) =>
       (Painted("query") # {} <=> (Len(vectors) > 0 /\ queryVector # None))

\* the marker of a projected query vector is on the canvas
C30_Witness ==
  /\ mounted /\ ~pending /\ queryPoint # None /\ queryVector # None
  /\ Cardinality(Painted("query")) = 1

=============================================================================
